---- MODULE Spec2Model ----
(***************************************************************************)
(* The CCTV monitoring backend.  Credential and session lifecycle:         *)
(* server/src/handlers/auth.ts (register, login, forgotPassword,           *)
(* resetPassword, verifyEmail) and server/src/handlers/users.ts            *)
(* (updateUser, deleteUser, changePassword, toggleUserStatus) over the     *)
(* users table and the in-memory otpStore.  Site and mail: the handlers of *)
(* buildings.ts, rooms.ts, cctv.ts and messages.ts over their tables.      *)
(*                                                                         *)
(* Spec runs the password-reset flow, SpecRegister registration with every *)
(* field varied, SpecLogin logging in on accounts that are deactivated and *)
(* reactivated, SpecAccounts every handler that writes a users row,        *)
(* SpecVerify email verification over time, SpecTokens verification tokens *)
(* of every shape, SpecPassword changePassword with every field varied,    *)
(* SpecSeed the seeding of the buildings table, SpecSite buildings, rooms  *)
(* and cameras, SpecMail messages and notifications.  In these a handler   *)
(* call is one step.  SpecRegisterRace and SpecResetRace take register,    *)
(* forgotPassword and resetPassword one await at a time, so that calls     *)
(* overlap.                                                                *)
(*                                                                         *)
(* Strings that the code takes apart or builds (passwords, OTP codes, the  *)
(* decimal rendering of Math.random()) are sequences of one-character      *)
(* strings; strings that are only compared (emails, names, messages) are   *)
(* TLA+ strings.  Time is counted in minutes of an absolute clock: the     *)
(* server's local time has a fixed offset, so setMinutes(getMinutes() + 15)*)
(* adds 15 minutes.  A call that throws without writing anything is a      *)
(* stuttering step; what it throws is the value of its ...Result operator. *)
(***************************************************************************)
EXTENDS Integers, Sequences, FiniteSets, TLC

VARIABLES
  users,     \* usersTable: id -> row
  nextId,    \* the serial sequence behind usersTable.id
  otpStore,  \* otpStore: email -> [code, expires]
  now,       \* the wall clock read by `new Date()`, in minutes
  last,      \* the last call that wrote to usersTable or otpStore, and its outcome
  tokens,    \* the tokens that login has returned so far
  calls,     \* call id -> input, locals and position of a handler call taken await by await
  buildings, rooms, cctv,                      \* buildingsTable, roomsTable, cctvTable
  nextBuildingId, nextRoomId, nextCctvId,      \* their serial sequences
  messages, notifications,                     \* messagesTable, notificationsTable
  nextMessageId, nextNotificationId            \* their serial sequences

site == <<buildings, rooms, cctv, nextBuildingId, nextRoomId, nextCctvId>>
mail == <<messages, notifications, nextMessageId, nextNotificationId>>

auth == <<users, nextId, otpStore, now, last, tokens, calls>>

vars == <<users, nextId, otpStore, now, last, tokens, calls, site, mail>>

----------------------------------------------------------------------------
(* Bounds of the model *)

MaxUsers == 2        \* rows ever inserted into usersTable
MaxTime == 30        \* the clock stops here
MaxLogins == 2       \* different tokens ever returned by login
MaxBuildings == 2    \* rows ever inserted by createBuilding
MaxRooms == 2        \* rows ever inserted into roomsTable
MaxCctv == 2         \* rows ever inserted into cctvTable
MaxMessages == 2     \* rows ever inserted into messagesTable
MaxCalls == 3        \* handler calls ever started that suspend at an await
TickSteps == {15}    \* minutes that pass between two handler calls

Emails == {"ann@x.com", "bob@x.com"}
Names == {"Ann"}

PwA == <<"s", "e", "c", "r", "e", "t", "1">>
PwB == <<"s", "e", "c", "r", "e", "t", "2">>
Passwords == {PwA, PwB}

Undefined == "undefined"   \* an optional input field that is not provided

OTP_EXPIRY_MINUTES == 15   \* expires.setMinutes(expires.getMinutes() + 15)

----------------------------------------------------------------------------
(* Error messages thrown by the handlers *)

Ok == "ok"
PasswordMismatch == "Passwords don't match"
DuplicateUser == "User with this email already exists"
InvalidCredentials == "Invalid email or password"
AccountDeactivated == "Account is deactivated"
UserNotFound == "User with this email does not exist"
NoResetRequest == "No password reset request found"
ResetCodeExpired == "Password reset code has expired"
InvalidResetCode == "Invalid password reset code"
UserIdNotFound == "User not found"
EmailTaken == "Email is already taken"

----------------------------------------------------------------------------
(* Pure helpers of auth.ts *)

HashedPrefix == <<"h", "a", "s", "h", "e", "d", "_">>

\* `hashed_${password}`
hashPassword(password) == HashedPrefix \o password

\* hashedPassword === `hashed_${password}`
verifyPassword(password, hashedPassword) == hashedPassword = HashedPrefix \o password

Min(a, b) == IF a < b THEN a ELSE b

\* String.prototype.slice(start, end) with 0 <= start <= end, on a sequence
slice(s, start, end) ==
  IF start >= Len(s) THEN <<>> ELSE SubSeq(s, start + 1, Min(end, Len(s)))

Digit(d) == CASE d = 0 -> "0" [] d = 1 -> "1" [] d = 2 -> "2" [] d = 3 -> "3"
              [] d = 4 -> "4" [] d = 5 -> "5" [] d = 6 -> "6" [] d = 7 -> "7"
              [] d = 8 -> "8" [] d = 9 -> "9"

RECURSIVE DecimalOf(_)
DecimalOf(n) == IF n < 10 THEN <<Digit(n)>> ELSE DecimalOf(n \div 10) \o <<Digit(n % 10)>>

RECURSIVE Zeros(_)
Zeros(n) == IF n = 0 THEN <<>> ELSE <<"0">> \o Zeros(n - 1)

\* A value of Math.random(): 0 when digits is empty, else the number
\* 0.0...0d1d2...dk with `zeros` zeros after the point, d1 # 0 and dk # 0.
\* Number.prototype.toString() of that value: fixed notation down to 1e-6,
\* exponent notation below.
NumberToString(v) ==
  IF v.digits = <<>> THEN <<"0">>
  ELSE IF v.zeros <= 5 THEN <<"0", ".">> \o Zeros(v.zeros) \o v.digits
  ELSE <<Head(v.digits)>>
       \o (IF Len(v.digits) > 1 THEN <<".">> \o Tail(v.digits) ELSE <<>>)
       \o <<"e", "-">> \o DecimalOf(v.zeros + 1)

\* Math.random().toString().slice(2, 8)
generateOTP(r) == slice(NumberToString(r), 2, 8)

\* Values Math.random() can return
Rnd123456789 == [zeros |-> 0, digits |-> <<"1", "2", "3", "4", "5", "6", "7", "8", "9">>]
RndHalf == [zeros |-> 0, digits |-> <<"5">>]
RandomValues == {Rnd123456789, RndHalf}

----------------------------------------------------------------------------
(* Store access *)

\* db.select().from(usersTable).where(eq(usersTable.email, email))
usersByEmail(email) == {id \in DOMAIN users : users[id].email = email}

\* users[0] of a non-empty result
firstUser(email) == CHOOSE id \in usersByEmail(email) : \A j \in usersByEmail(email) : id <= j

\* Map.prototype.delete
otpDelete(store, email) == [e \in DOMAIN store \ {email} |-> store[e]]

\* Map.prototype.set
otpSet(store, email, entry) ==
  [e \in DOMAIN store \cup {email} |-> IF e = email THEN entry ELSE store[e]]

NoArg == "-"

\* A call, the email or user id it was made for, and what it returned or threw
Call(op, who, result) == [op |-> op, who |-> who, result |-> result]

----------------------------------------------------------------------------

EmptyMap == [x \in {} |-> x]

Init ==
  /\ users = EmptyMap
  /\ nextId = 1
  /\ otpStore = EmptyMap
  /\ now = 0
  /\ last = Call("init", NoArg, Ok)
  /\ tokens = {}
  /\ calls = EmptyMap
  /\ buildings = EmptyMap /\ rooms = EmptyMap /\ cctv = EmptyMap
  /\ nextBuildingId = 1 /\ nextRoomId = 1 /\ nextCctvId = 1
  /\ messages = EmptyMap /\ notifications = EmptyMap
  /\ nextMessageId = 1 /\ nextNotificationId = 1

----------------------------------------------------------------------------
(* auth.ts: register *)

\* registerResult with the existence check ahead of the confirmation check
registerResult_duplicateFirst(input) ==
  IF usersByEmail(input.email) # {} THEN DuplicateUser
  ELSE IF input.password # input.confirm_password THEN PasswordMismatch
  ELSE Ok

\* registerResult with a duplicate check that also compares the name
registerResult_sameNameOnly(input) ==
  IF input.password # input.confirm_password THEN PasswordMismatch
  ELSE IF \E id \in usersByEmail(input.email) : users[id].name = input.name THEN DuplicateUser
  ELSE Ok

registerResult(input) ==
  IF input.password # input.confirm_password THEN PasswordMismatch
  ELSE IF usersByEmail(input.email) # {} THEN DuplicateUser
  ELSE Ok

newUser(input) ==
  [id |-> nextId,
   name |-> input.name,
   email |-> input.email,
   password |-> hashPassword(input.password),
   role |-> IF input.role = Undefined THEN "USER" ELSE input.role,
   is_verified |-> FALSE,
   is_active |-> TRUE,
   remember_me |-> FALSE,
   theme |-> "SYSTEM",
   updated_at |-> now]

register(input) ==
  LET result == registerResult(input) IN
  /\ result = Ok => nextId <= MaxUsers
  /\ IF result = Ok
     THEN /\ users' = [id \in DOMAIN users \cup {nextId} |->
                         IF id = nextId THEN newUser(input) ELSE users[id]]
          /\ nextId' = nextId + 1
          /\ last' = Call("register", input.email, result)
     ELSE UNCHANGED <<users, nextId, last>>
  /\ UNCHANGED <<otpStore, now, tokens, calls, site, mail>>

----------------------------------------------------------------------------
(* auth.ts: login *)

\* loginResult with a message of its own for an unknown email
loginResult_tellsUnknown(input) ==
  IF usersByEmail(input.email) = {} THEN UserNotFound
  ELSE IF ~users[firstUser(input.email)].is_active THEN AccountDeactivated
  ELSE IF ~verifyPassword(input.password, users[firstUser(input.email)].password)
       THEN InvalidCredentials
  ELSE Ok

\* loginResult without the is_active check
loginResult_ignoresActive(input) ==
  IF usersByEmail(input.email) = {} THEN InvalidCredentials
  ELSE IF ~verifyPassword(input.password, users[firstUser(input.email)].password)
       THEN InvalidCredentials
  ELSE Ok

loginResult(input) ==
  IF usersByEmail(input.email) = {} THEN InvalidCredentials
  ELSE IF ~users[firstUser(input.email)].is_active THEN AccountDeactivated
  ELSE IF ~verifyPassword(input.password, users[firstUser(input.email)].password)
       THEN InvalidCredentials
  ELSE Ok

\* `jwt_token_${userId}_${Date.now()}`: the text is determined by, and
\* determines, the user id and the clock reading
generateToken(userId) == <<"jwt_token", userId, now>>

\* The token a successful login returns
loginToken(input) == generateToken(users[firstUser(input.email)].id)

\* login that stamps updated_at on every success
login_alwaysTouches(input) ==
  LET result == loginResult(input) IN
  /\ result = Ok => Cardinality(tokens \cup {loginToken(input)}) <= MaxLogins
  /\ IF result = Ok
     THEN /\ users' = [users EXCEPT ![firstUser(input.email)] =
                         [@ EXCEPT !.remember_me = IF "remember_me" \in DOMAIN input
                                                   THEN input.remember_me ELSE @,
                                   !.updated_at = now]]
          /\ last' = Call("login", input.email, result)
     ELSE UNCHANGED <<users, last>>
  /\ tokens' = IF result = Ok THEN tokens \cup {loginToken(input)} ELSE tokens
  /\ UNCHANGED <<nextId, otpStore, now, calls, site, mail>>

login(input) ==
  LET result == loginResult(input) IN
  /\ result = Ok => Cardinality(tokens \cup {loginToken(input)}) <= MaxLogins
  /\ IF result = Ok /\ "remember_me" \in DOMAIN input
     THEN /\ users' = [users EXCEPT ![firstUser(input.email)] =
                         [@ EXCEPT !.remember_me = input.remember_me, !.updated_at = now]]
          /\ last' = Call("login", input.email, result)
     ELSE UNCHANGED <<users, last>>
  /\ tokens' = IF result = Ok THEN tokens \cup {loginToken(input)} ELSE tokens
  /\ UNCHANGED <<nextId, otpStore, now, calls, site, mail>>

----------------------------------------------------------------------------
(* auth.ts: forgotPassword *)

\* forgotPasswordResult without the is_active check
forgotPasswordResult_skipsActive(input) ==
  IF usersByEmail(input.email) = {} THEN UserNotFound ELSE Ok

forgotPasswordResult(input) ==
  IF usersByEmail(input.email) = {} THEN UserNotFound
  ELSE IF ~users[firstUser(input.email)].is_active THEN AccountDeactivated
  ELSE Ok

\* forgotPassword that keeps a pending entry instead of replacing it
forgotPassword_keepsPrior(input, r) ==
  LET result == forgotPasswordResult(input) IN
  /\ IF result = Ok
     THEN /\ otpStore' = IF input.email \in DOMAIN otpStore THEN otpStore
                         ELSE otpSet(otpStore, input.email,
                                     [code |-> generateOTP(r),
                                      expires |-> now + OTP_EXPIRY_MINUTES])
          /\ last' = Call("forgotPassword", input.email, result)
     ELSE UNCHANGED <<otpStore, last>>
  /\ UNCHANGED <<users, nextId, now, tokens, calls, site, mail>>

\* r is the value Math.random() returns inside generateOTP
forgotPassword(input, r) ==
  LET result == forgotPasswordResult(input) IN
  /\ IF result = Ok
     THEN /\ otpStore' = otpSet(otpStore, input.email,
                                [code |-> generateOTP(r), expires |-> now + OTP_EXPIRY_MINUTES])
          /\ last' = Call("forgotPassword", input.email, result)
     ELSE UNCHANGED <<otpStore, last>>
  /\ UNCHANGED <<users, nextId, now, tokens, calls, site, mail>>

----------------------------------------------------------------------------
(* auth.ts: resetPassword *)

\* resetPasswordResult with `>=` in place of `>` in the expiry check
resetPasswordResult_expiresAtDeadline(input) ==
  IF usersByEmail(input.email) = {} THEN UserNotFound
  ELSE IF input.email \notin DOMAIN otpStore THEN NoResetRequest
  ELSE IF now >= otpStore[input.email].expires THEN ResetCodeExpired
  ELSE IF otpStore[input.email].code # input.otp_code THEN InvalidResetCode
  ELSE Ok

\* resetPasswordResult with the code comparison ahead of the expiry check
resetPasswordResult_codeBeforeExpiry(input) ==
  IF usersByEmail(input.email) = {} THEN UserNotFound
  ELSE IF input.email \notin DOMAIN otpStore THEN NoResetRequest
  ELSE IF otpStore[input.email].code # input.otp_code THEN InvalidResetCode
  ELSE IF now > otpStore[input.email].expires THEN ResetCodeExpired
  ELSE Ok

resetPasswordResult(input) ==
  IF usersByEmail(input.email) = {} THEN UserNotFound
  ELSE IF input.email \notin DOMAIN otpStore THEN NoResetRequest
  ELSE IF now > otpStore[input.email].expires THEN ResetCodeExpired
  ELSE IF otpStore[input.email].code # input.otp_code THEN InvalidResetCode
  ELSE Ok

\* The write of a successful resetPassword to usersTable
resetPasswordUpdate(input) ==
  [users EXCEPT ![firstUser(input.email)] =
     [@ EXCEPT !.password = hashPassword(input.new_password), !.updated_at = now]]

\* resetPassword without the final otpStore.delete
resetPassword_keepsCode(input) ==
  LET result == resetPasswordResult(input) IN
  /\ IF result = Ok THEN users' = resetPasswordUpdate(input) ELSE UNCHANGED users
  /\ IF result = ResetCodeExpired
     THEN otpStore' = otpDelete(otpStore, input.email)
     ELSE UNCHANGED otpStore
  /\ IF result \in {Ok, ResetCodeExpired}
     THEN last' = Call("resetPassword", input.email, result)
     ELSE UNCHANGED last
  /\ UNCHANGED <<nextId, now, tokens, calls, site, mail>>

\* resetPassword that sets updated_at but not the password
resetPassword_keepsPassword(input) ==
  LET result == resetPasswordResult(input) IN
  /\ IF result = Ok
     THEN users' = [users EXCEPT ![firstUser(input.email)].updated_at = now]
     ELSE UNCHANGED users
  /\ IF result \in {Ok, ResetCodeExpired}
     THEN /\ otpStore' = otpDelete(otpStore, input.email)
          /\ last' = Call("resetPassword", input.email, result)
     ELSE UNCHANGED <<otpStore, last>>
  /\ UNCHANGED <<nextId, now, tokens, calls, site, mail>>

\* resetPassword that also deletes the entry when the code does not match
resetPassword_consumesOnMismatch(input) ==
  LET result == resetPasswordResult(input) IN
  /\ IF result = Ok THEN users' = resetPasswordUpdate(input) ELSE UNCHANGED users
  /\ IF result \in {Ok, ResetCodeExpired, InvalidResetCode}
     THEN otpStore' = otpDelete(otpStore, input.email)
     ELSE UNCHANGED otpStore
  /\ IF result \in {Ok, ResetCodeExpired}
     THEN last' = Call("resetPassword", input.email, result)
     ELSE UNCHANGED last
  /\ UNCHANGED <<nextId, now, tokens, calls, site, mail>>

\* resetPassword without the otpStore.delete of the expired branch
resetPassword_keepsExpired(input) ==
  LET result == resetPasswordResult(input) IN
  /\ IF result = Ok THEN users' = resetPasswordUpdate(input) ELSE UNCHANGED users
  /\ IF result = Ok
     THEN otpStore' = otpDelete(otpStore, input.email)
     ELSE UNCHANGED otpStore
  /\ IF result \in {Ok, ResetCodeExpired}
     THEN last' = Call("resetPassword", input.email, result)
     ELSE UNCHANGED last
  /\ UNCHANGED <<nextId, now, tokens, calls, site, mail>>

resetPassword(input) ==
  LET result == resetPasswordResult(input) IN
  /\ IF result = Ok THEN users' = resetPasswordUpdate(input) ELSE UNCHANGED users
  /\ IF result \in {Ok, ResetCodeExpired}
     THEN otpStore' = otpDelete(otpStore, input.email)
     ELSE UNCHANGED otpStore
  /\ IF result \in {Ok, ResetCodeExpired}
     THEN last' = Call("resetPassword", input.email, result)
     ELSE UNCHANGED last
  /\ UNCHANGED <<nextId, now, tokens, calls, site, mail>>

----------------------------------------------------------------------------
(* users.ts: updateUser, deleteUser, toggleUserStatus *)

\* updateUserResult without the look-up of the new email
updateUserResult_noEmailCheck(id, input) ==
  IF id \notin DOMAIN users THEN UserIdNotFound ELSE Ok

updateUserResult(id, input) ==
  IF id \notin DOMAIN users THEN UserIdNotFound
  ELSE IF input.email # Undefined /\ input.email # users[id].email
          /\ usersByEmail(input.email) # {} THEN EmailTaken
  ELSE Ok

\* updateUser that withdraws the verification when the email changes
updateUser_unverifies(id, input) ==
  LET result == updateUserResult(id, input) IN
  /\ IF result = Ok
     THEN /\ users' = [users EXCEPT ![id] =
                      [@ EXCEPT !.updated_at = now,
                                !.name = IF input.name # Undefined THEN input.name ELSE @,
                                !.email = IF input.email # Undefined THEN input.email ELSE @,
                                !.is_verified = IF input.email # Undefined
                                                   /\ input.email # users[id].email
                                                THEN FALSE ELSE @,
                                !.theme = IF input.theme # Undefined THEN input.theme ELSE @]]
          /\ last' = Call("updateUser", id, result)
     ELSE UNCHANGED <<users, last>>
  /\ UNCHANGED <<nextId, otpStore, now, tokens, calls, site, mail>>

updateUser(id, input) ==
  LET result == updateUserResult(id, input) IN
  /\ IF result = Ok
     THEN /\ users' = [users EXCEPT ![id] =
                      [@ EXCEPT !.updated_at = now,
                                !.name = IF input.name # Undefined THEN input.name ELSE @,
                                !.email = IF input.email # Undefined THEN input.email ELSE @,
                                !.theme = IF input.theme # Undefined THEN input.theme ELSE @]]
          /\ last' = Call("updateUser", id, result)
     ELSE UNCHANGED <<users, last>>
  /\ UNCHANGED <<nextId, otpStore, now, tokens, calls, site, mail>>

\* messages and notifications reference usersTable.id with onDelete: 'cascade'
messagesWithout(id) ==
  [m \in {j \in DOMAIN messages :
            messages[j].sender_id # id /\ messages[j].receiver_id # id} |-> messages[m]]
notificationsWithout(id) ==
  [n \in {j \in DOMAIN notifications : notifications[j].user_id # id} |-> notifications[n]]

deleteUser(id) ==
  LET result == IF id \notin DOMAIN users THEN UserIdNotFound ELSE Ok IN
  /\ IF result = Ok
     THEN /\ users' = [i \in DOMAIN users \ {id} |-> users[i]]
          /\ last' = Call("deleteUser", id, result)
     ELSE UNCHANGED <<users, last>>
  /\ messages' = messagesWithout(id)
  /\ notifications' = notificationsWithout(id)
  /\ UNCHANGED <<nextMessageId, nextNotificationId>>
  /\ UNCHANGED <<nextId, otpStore, now, tokens, calls, site>>

toggleUserStatus(id) ==
  LET result == IF id \notin DOMAIN users THEN UserIdNotFound ELSE Ok IN
  /\ IF result = Ok
     THEN /\ users' = [users EXCEPT ![id] =
                         [@ EXCEPT !.is_active = ~@, !.updated_at = now]]
          /\ last' = Call("toggleUserStatus", id, result)
     ELSE UNCHANGED <<users, last>>
  /\ UNCHANGED <<nextId, otpStore, now, tokens, calls, site, mail>>

----------------------------------------------------------------------------
(* users.ts: hashPassword, verifyPassword, changePassword *)

PasswordIncorrect == "Current password is incorrect"

\* pbkdf2Sync(password, salt, 10000, 64, 'sha512').toString('hex'): a one-way
\* function, kept as one symbol per (password, salt) pair.  The symbol stands
\* for the 128 hex digits of the derived key; two pairs never share one.
pbkdf2Sync(password, salt) == ToString(<<"pbkdf2", password, salt>>)

\* `${salt}:${hash}`, salt being the value of randomBytes(32).toString('hex')
users_hashPassword(password, salt) == salt \o <<":">> \o <<pbkdf2Sync(password, salt)>>

\* String.prototype.split(sep) for a one-character separator
RECURSIVE split(_, _)
split(s, sep) ==
  IF \A i \in 1..Len(s) : s[i] # sep THEN <<s>>
  ELSE LET i == CHOOSE k \in 1..Len(s) : s[k] = sep /\ \A j \in 1..(k - 1) : s[j] # sep
       IN <<SubSeq(s, 1, i - 1)>> \o split(SubSeq(s, i + 1, Len(s)), sep)

\* const [salt, hash] = hashedPassword.split(':'); hash is undefined when
\* there is no ':', and undefined === verifyHash is false
users_verifyPassword(password, hashedPassword) ==
  LET parts == split(hashedPassword, ":") IN
  /\ Len(parts) >= 2
  /\ parts[2] = <<pbkdf2Sync(password, parts[1])>>

\* changePasswordResult with the look-up of the user ahead of the confirmation
changePasswordResult_userFirst(userId, input) ==
  IF userId \notin DOMAIN users THEN UserIdNotFound
  ELSE IF input.new_password # input.confirm_password THEN PasswordMismatch
  ELSE IF ~users_verifyPassword(input.current_password, users[userId].password)
       THEN PasswordIncorrect
  ELSE Ok

changePasswordResult(userId, input) ==
  IF input.new_password # input.confirm_password THEN PasswordMismatch
  ELSE IF userId \notin DOMAIN users THEN UserIdNotFound
  ELSE IF ~users_verifyPassword(input.current_password, users[userId].password)
       THEN PasswordIncorrect
  ELSE Ok

changePassword(userId, input, salt) ==
  LET result == changePasswordResult(userId, input) IN
  /\ IF result = Ok
     THEN /\ users' = [users EXCEPT ![userId] =
                         [@ EXCEPT !.password = users_hashPassword(input.new_password, salt),
                                   !.updated_at = now]]
          /\ last' = Call("changePassword", userId, result)
     ELSE UNCHANGED <<users, last>>
  /\ UNCHANGED <<nextId, otpStore, now, tokens, calls, site, mail>>

----------------------------------------------------------------------------
(* auth.ts: verifyEmail *)

InvalidVerificationToken == "Invalid verification token"
EmailVerified == "Email verified successfully."
EmailAlreadyVerified == "Email is already verified."

Digits == {"0", "1", "2", "3", "4", "5", "6", "7", "8", "9"}

DigitValue(c) == CHOOSE d \in 0..9 : Digit(d) = c

\* The longest prefix of s made of decimal digits
RECURSIVE DigitsPrefix(_)
DigitsPrefix(s) ==
  IF s = <<>> \/ Head(s) \notin Digits THEN <<>> ELSE <<Head(s)>> \o DigitsPrefix(Tail(s))

RECURSIVE ValueOf(_)
ValueOf(ds) ==
  IF ds = <<>> THEN 0 ELSE 10 * ValueOf(SubSeq(ds, 1, Len(ds) - 1)) + DigitValue(ds[Len(ds)])

RECURSIVE TrimStart(_)
TrimStart(s) == IF s # <<>> /\ Head(s) = " " THEN TrimStart(Tail(s)) ELSE s

\* parseInt(string) in radix 10: leading blanks, an optional sign, then the
\* longest run of digits; NaN when that run is empty.  (A "0x" prefix, which
\* parseInt reads as hexadecimal, is in none of the tokens used here.)
parseInt(s) ==
  LET t == TrimStart(s)
      signed == t # <<>> /\ Head(t) \in {"+", "-"}
      ds == DigitsPrefix(IF signed THEN Tail(t) ELSE t)
  IN IF ds = <<>> THEN [isNaN |-> TRUE, value |-> 0]
     ELSE [isNaN |-> FALSE,
           value |-> IF signed /\ Head(t) = "-" THEN 0 - ValueOf(ds) ELSE ValueOf(ds)]

Verify == <<"v", "e", "r", "i", "f", "y">>
Email == <<"e", "m", "a", "i", "l">>

\* `verify_email_${userId}_${timestamp}`
verifyToken(userId, timestamp) ==
  Verify \o <<"_">> \o Email \o <<"_">> \o DecimalOf(userId) \o <<"_">> \o DecimalOf(timestamp)

verifyEmailResult(token) ==
  LET parts == split(token, "_") IN
  IF Len(parts) < 3 \/ parts[1] # Verify \/ parts[2] # Email THEN InvalidVerificationToken
  ELSE IF parseInt(parts[3]).isNaN THEN InvalidVerificationToken
  ELSE IF parseInt(parts[3]).value \notin DOMAIN users THEN UserIdNotFound
  ELSE IF users[parseInt(parts[3]).value].is_verified THEN EmailAlreadyVerified
  ELSE EmailVerified

\* verifyEmail that writes the row again when it is already verified
verifyEmail_writesAgain(token) ==
  LET result == verifyEmailResult(token)
      userId == parseInt(split(token, "_")[3]).value
  IN
  /\ IF result \in {EmailVerified, EmailAlreadyVerified}
     THEN /\ users' = [users EXCEPT ![userId] =
                         [@ EXCEPT !.is_verified = TRUE, !.updated_at = now]]
          /\ last' = Call("verifyEmail", userId, result)
     ELSE UNCHANGED <<users, last>>
  /\ UNCHANGED <<nextId, otpStore, now, tokens, calls, site, mail>>

verifyEmail(token) ==
  LET result == verifyEmailResult(token)
      userId == parseInt(split(token, "_")[3]).value
  IN
  /\ IF result = EmailVerified
     THEN /\ users' = [users EXCEPT ![userId] =
                         [@ EXCEPT !.is_verified = TRUE, !.updated_at = now]]
          /\ last' = Call("verifyEmail", userId, result)
     ELSE UNCHANGED <<users, last>>
  /\ UNCHANGED <<nextId, otpStore, now, tokens, calls, site, mail>>

----------------------------------------------------------------------------
(* buildings.ts.  A row keeps its id and name; address, coordinates and      *)
(* timestamps are written but read by none of the handlers modelled here.    *)

BuildingNotFound == "Building not found"
RoomNotFound == "Room not found"
CctvNotFound == "CCTV not found"

\* The names of the `buildings` array of initializePertaminaBuildings
PertaminaBuildings ==
  <<"Collaborative Building", "Main Gate", "AWI",
    "Maintenance Shelter Area 1", "Maintenance Shelter Area 2",
    "Maintenance Shelter Area 3", "Maintenance Shelter Area 4",
    "White OM Shelter", "Entrance to Pertamina Refinery Area",
    "Marine Region III Pertamina Balongan", "Main Control Room",
    "Tank Farm Area 1", "EXOR Building",
    "Crude Distillation Unit (CDU) Production Area", "HSSE Demo Room",
    "Amanah Building", "POC", "JGC">>

\* db.insert(table).values(rows): one serial id per row, in order
insertAll(table, next, rows) ==
  [id \in DOMAIN table \cup (next..(next + Len(rows) - 1)) |->
     IF id \in DOMAIN table THEN table[id]
     ELSE [rows[id - next + 1] EXCEPT !.id = id]]

\* rooms reference buildingsTable.id, and cctv roomsTable.id, with
\* onDelete: 'cascade'
roomsIn(keptBuildings) == {r \in DOMAIN rooms : rooms[r].building_id \in keptBuildings}
cctvIn(keptRooms) == {c \in DOMAIN cctv : cctv[c].room_id \in keptRooms}

createBuilding(input) ==
  /\ buildings' = insertAll(buildings, nextBuildingId, <<[id |-> 0, name |-> input.name]>>)
  /\ nextBuildingId' = nextBuildingId + 1
  /\ UNCHANGED <<rooms, cctv, nextRoomId, nextCctvId, auth, mail>>

updateBuildingResult(input) == IF input.id \notin DOMAIN buildings THEN BuildingNotFound ELSE Ok

updateBuilding(input) ==
  /\ buildings' = IF updateBuildingResult(input) = Ok /\ "name" \in DOMAIN input
                  THEN [buildings EXCEPT ![input.id].name = input.name]
                  ELSE buildings
  /\ UNCHANGED <<rooms, cctv, nextBuildingId, nextRoomId, nextCctvId, auth, mail>>

deleteBuildingResult(id) == IF id \notin DOMAIN buildings THEN BuildingNotFound ELSE Ok

deleteBuilding(id) ==
  LET kept == DOMAIN buildings \ {id} IN
  /\ buildings' = [b \in kept |-> buildings[b]]
  /\ rooms' = [r \in roomsIn(kept) |-> rooms[r]]
  /\ cctv' = [c \in cctvIn(roomsIn(kept)) |-> cctv[c]]
  /\ UNCHANGED <<nextBuildingId, nextRoomId, nextCctvId, auth, mail>>

\* The count that initializePertaminaBuildings returns.  count(*) comes back
\* from the driver as a decimal string; `'0' > 0` is false and `'<n>' > 0` is
\* true for every n above zero.
initializePertaminaBuildingsResult ==
  IF Cardinality(DOMAIN buildings) > 0 THEN 0 ELSE Len(PertaminaBuildings)

\* initializePertaminaBuildings without the look at the table
initializePertaminaBuildings_always ==
  /\ buildings' = insertAll(buildings, nextBuildingId,
                            [i \in DOMAIN PertaminaBuildings |->
                               [id |-> 0, name |-> PertaminaBuildings[i]]])
  /\ nextBuildingId' = nextBuildingId + Len(PertaminaBuildings)
  /\ UNCHANGED <<rooms, cctv, nextRoomId, nextCctvId, auth, mail>>

initializePertaminaBuildings ==
  /\ IF initializePertaminaBuildingsResult = 0
     THEN UNCHANGED <<buildings, nextBuildingId>>
     ELSE /\ buildings' = insertAll(buildings, nextBuildingId,
                                    [i \in DOMAIN PertaminaBuildings |->
                                       [id |-> 0, name |-> PertaminaBuildings[i]]])
          /\ nextBuildingId' = nextBuildingId + Len(PertaminaBuildings)
  /\ UNCHANGED <<rooms, cctv, nextRoomId, nextCctvId, auth, mail>>

----------------------------------------------------------------------------
(* rooms.ts and cctv.ts.  A room row keeps id, building_id and name; a cctv  *)
(* row keeps id, room_id, name and status.                                   *)

createRoomResult(input) ==
  IF input.building_id \notin DOMAIN buildings THEN BuildingNotFound ELSE Ok

createRoom(input) ==
  /\ IF createRoomResult(input) = Ok
     THEN /\ rooms' = insertAll(rooms, nextRoomId,
                                <<[id |-> 0, building_id |-> input.building_id,
                                   name |-> input.name]>>)
          /\ nextRoomId' = nextRoomId + 1
     ELSE UNCHANGED <<rooms, nextRoomId>>
  /\ UNCHANGED <<buildings, cctv, nextBuildingId, nextCctvId, auth, mail>>

updateRoomResult(input) ==
  IF input.id \notin DOMAIN rooms THEN RoomNotFound
  ELSE IF "building_id" \in DOMAIN input /\ input.building_id \notin DOMAIN buildings
       THEN BuildingNotFound
  ELSE Ok

updateRoom(input) ==
  /\ rooms' = IF updateRoomResult(input) = Ok
              THEN [rooms EXCEPT ![input.id] =
                      [@ EXCEPT !.building_id = IF "building_id" \in DOMAIN input
                                                THEN input.building_id ELSE @,
                                !.name = IF "name" \in DOMAIN input THEN input.name ELSE @]]
              ELSE rooms
  /\ UNCHANGED <<buildings, cctv, nextBuildingId, nextRoomId, nextCctvId, auth, mail>>

deleteRoomResult(id) == IF id \notin DOMAIN rooms THEN RoomNotFound ELSE Ok

\* deleteRoom that leaves the cameras of the room in place
deleteRoom_keepsCctv(id) ==
  /\ rooms' = [r \in DOMAIN rooms \ {id} |-> rooms[r]]
  /\ UNCHANGED <<buildings, cctv, nextBuildingId, nextRoomId, nextCctvId, auth, mail>>

deleteRoom(id) ==
  LET kept == DOMAIN rooms \ {id} IN
  /\ rooms' = [r \in kept |-> rooms[r]]
  /\ cctv' = [c \in cctvIn(kept) |-> cctv[c]]
  /\ UNCHANGED <<buildings, nextBuildingId, nextRoomId, nextCctvId, auth, mail>>

createCctvResult(input) == IF input.room_id \notin DOMAIN rooms THEN RoomNotFound ELSE Ok

createCctv(input) ==
  /\ IF createCctvResult(input) = Ok
     THEN /\ cctv' = insertAll(cctv, nextCctvId,
                               <<[id |-> 0, room_id |-> input.room_id, name |-> input.name,
                                  status |-> input.status]>>)
          /\ nextCctvId' = nextCctvId + 1
     ELSE UNCHANGED <<cctv, nextCctvId>>
  /\ UNCHANGED <<buildings, rooms, nextBuildingId, nextRoomId, auth, mail>>

updateCctvResult(input) ==
  IF input.id \notin DOMAIN cctv THEN CctvNotFound
  ELSE IF "room_id" \in DOMAIN input /\ input.room_id \notin DOMAIN rooms THEN RoomNotFound
  ELSE Ok

updateCctv(input) ==
  /\ cctv' = IF updateCctvResult(input) = Ok
             THEN [cctv EXCEPT ![input.id] =
                     [@ EXCEPT !.room_id = IF "room_id" \in DOMAIN input
                                           THEN input.room_id ELSE @,
                               !.status = IF "status" \in DOMAIN input
                                          THEN input.status ELSE @]]
             ELSE cctv
  /\ UNCHANGED <<buildings, rooms, nextBuildingId, nextRoomId, nextCctvId, auth, mail>>

deleteCctvResult(id) == IF id \notin DOMAIN cctv THEN CctvNotFound ELSE Ok

deleteCctv(id) ==
  /\ cctv' = [c \in DOMAIN cctv \ {id} |-> cctv[c]]
  /\ UNCHANGED <<buildings, rooms, nextBuildingId, nextRoomId, nextCctvId, auth, mail>>

----------------------------------------------------------------------------
(* messages.ts.  A message row keeps id, sender_id, receiver_id, content and *)
(* is_read; a notification row id, user_id, type, title, content, is_read.   *)

SenderNotFound == "Sender not found"
ReceiverNotFound == "Receiver not found"

\* sendMessageResult that looks for the receiver first
sendMessageResult_receiverFirst(senderId, input) ==
  IF input.receiver_id \notin DOMAIN users THEN ReceiverNotFound
  ELSE IF senderId \notin DOMAIN users THEN SenderNotFound
  ELSE Ok

sendMessageResult(senderId, input) ==
  IF senderId \notin DOMAIN users THEN SenderNotFound
  ELSE IF input.receiver_id \notin DOMAIN users THEN ReceiverNotFound
  ELSE Ok

sendMessage(senderId, input) ==
  /\ IF sendMessageResult(senderId, input) = Ok
     THEN /\ messages' = insertAll(messages, nextMessageId,
                                   <<[id |-> 0, sender_id |-> senderId,
                                      receiver_id |-> input.receiver_id,
                                      content |-> input.content, is_read |-> FALSE]>>)
          /\ nextMessageId' = nextMessageId + 1
          /\ notifications' =
               insertAll(notifications, nextNotificationId,
                         <<[id |-> 0, user_id |-> input.receiver_id, type |-> "MESSAGE",
                            title |-> "New Message",
                            content |-> <<"You have a new message from ",
                                          users[senderId].name>>,
                            is_read |-> FALSE]>>)
          /\ nextNotificationId' = nextNotificationId + 1
     ELSE UNCHANGED mail
  /\ UNCHANGED <<auth, site>>

MessageNotFound == "Message not found"

markMessageAsReadResult(id) == IF id \notin DOMAIN messages THEN MessageNotFound ELSE Ok

markMessageAsRead(id) ==
  /\ messages' = IF markMessageAsReadResult(id) = Ok
                 THEN [messages EXCEPT ![id].is_read = TRUE]
                 ELSE messages
  /\ UNCHANGED <<notifications, nextMessageId, nextNotificationId, auth, site>>

----------------------------------------------------------------------------
(* auth.ts, one step per await.  A call of an async handler runs up to its   *)
(* next `await`, the store executes the statement awaited, and the call runs *)
(* on when the event loop resumes it; steps of other calls come in between.  *)
(* calls[c] holds the input and the locals of call c, pc the statement it    *)
(* waits for, and result what it returned or threw once pc is "done".        *)

\* What node-postgres throws for an insert that breaks users_email_unique
UniqueViolation == "duplicate key value violates unique constraint \"users_email_unique\""

start(c, call) == [d \in DOMAIN calls \cup {c} |-> IF d = c THEN call ELSE calls[d]]
finish(c, result) == [calls EXCEPT ![c] = [@ EXCEPT !.pc = "done", !.result = result]]
at(c, op, pc) == c \in DOMAIN calls /\ calls[c].op = op /\ calls[c].pc = pc

\* register up to `await db.select()`
registerCall(c, input) ==
  /\ c \notin DOMAIN calls
  /\ calls' = start(c, [op |-> "register", input |-> input,
                        pc |-> IF input.password # input.confirm_password
                               THEN "done" ELSE "select",
                        result |-> IF input.password # input.confirm_password
                                   THEN PasswordMismatch ELSE NoArg])
  /\ UNCHANGED <<users, nextId, otpStore, now, last, tokens, site, mail>>

\* the select, and register from there up to `await db.insert()`
registerSelect(c) ==
  /\ at(c, "register", "select")
  /\ calls' = IF usersByEmail(calls[c].input.email) # {}
              THEN finish(c, DuplicateUser)
              ELSE [calls EXCEPT ![c].pc = "insert"]
  /\ UNCHANGED <<users, nextId, otpStore, now, last, tokens, site, mail>>

\* the insert, which takes a value of the serial whether or not the row
\* passes the unique constraint on email, and register from there to its end
registerInsert(c) ==
  LET input == calls[c].input IN
  /\ at(c, "register", "insert")
  /\ nextId <= MaxUsers
  /\ nextId' = nextId + 1
  /\ IF usersByEmail(input.email) # {}
     THEN /\ calls' = finish(c, UniqueViolation)
          /\ UNCHANGED <<users, last>>
     ELSE /\ users' = [id \in DOMAIN users \cup {nextId} |->
                         IF id = nextId THEN newUser(input) ELSE users[id]]
          /\ last' = Call("register", input.email, Ok)
          /\ calls' = finish(c, Ok)
  /\ UNCHANGED <<otpStore, now, tokens, site, mail>>

\* forgotPassword up to `await db.select()`
forgotPasswordCall(c, input) ==
  /\ c \notin DOMAIN calls
  /\ calls' = start(c, [op |-> "forgotPassword", input |-> input, pc |-> "select",
                        result |-> NoArg])
  /\ UNCHANGED <<users, nextId, otpStore, now, last, tokens, site, mail>>

\* the select, and forgotPassword from there to its end, with the id of
\* `user = users[0]` kept as a local of the call; r is the value Math.random()
\* returns inside generateOTP
forgotPasswordSelect(c, r) ==
  LET input == calls[c].input
      result == forgotPasswordResult(input)
  IN
  /\ at(c, "forgotPassword", "select")
  /\ IF result = Ok
     THEN /\ otpStore' = otpSet(otpStore, input.email,
                                [code |-> generateOTP(r), expires |-> now + OTP_EXPIRY_MINUTES])
          /\ last' = Call("forgotPassword", input.email, result)
     ELSE UNCHANGED <<otpStore, last>>
  /\ calls' = [calls EXCEPT ![c] =
                 IF result = UserNotFound
                 THEN [@ EXCEPT !.pc = "done", !.result = result]
                 ELSE [op |-> "forgotPassword", input |-> input, pc |-> "done",
                       result |-> result, user |-> firstUser(input.email)]]
  /\ UNCHANGED <<users, nextId, now, tokens, site, mail>>

\* resetPassword up to `await db.select()`
resetPasswordCall(c, input) ==
  /\ c \notin DOMAIN calls
  /\ calls' = start(c, [op |-> "resetPassword", input |-> input, pc |-> "select",
                        result |-> NoArg])
  /\ UNCHANGED <<users, nextId, otpStore, now, last, tokens, site, mail>>

\* the select, and resetPassword from there up to `await db.update()`: the
\* checks of the pending code, with user.id, the entry read and the new
\* Date() of the update kept as locals of the call
resetPasswordSelect(c) ==
  LET input == calls[c].input
      result == resetPasswordResult(input)
  IN
  /\ at(c, "resetPassword", "select")
  /\ calls' = IF result = Ok
              THEN [calls EXCEPT ![c] =
                      [op |-> "resetPassword", input |-> input, pc |-> "update",
                       result |-> NoArg, user |-> firstUser(input.email),
                       storedOTP |-> otpStore[input.email], updated_at |-> now]]
              ELSE finish(c, result)
  /\ IF result = ResetCodeExpired
     THEN /\ otpStore' = otpDelete(otpStore, input.email)
          /\ last' = Call("resetPassword", input.email, result)
     ELSE UNCHANGED <<otpStore, last>>
  /\ UNCHANGED <<users, nextId, now, tokens, site, mail>>

\* the update of the row with id user.id
resetPasswordWrite(c) ==
  /\ at(c, "resetPassword", "update")
  /\ users' = [id \in DOMAIN users |->
                 IF id = calls[c].user
                 THEN [users[id] EXCEPT !.password = hashPassword(calls[c].input.new_password),
                                        !.updated_at = calls[c].updated_at]
                 ELSE users[id]]
  /\ calls' = [calls EXCEPT ![c].pc = "delete"]
  /\ UNCHANGED <<nextId, otpStore, now, last, tokens, site, mail>>

\* resetPassword after the update: otpStore.delete(input.email) and the return
resetPasswordFinish(c) ==
  /\ at(c, "resetPassword", "delete")
  /\ otpStore' = otpDelete(otpStore, calls[c].input.email)
  /\ last' = Call("resetPassword", calls[c].input.email, Ok)
  /\ calls' = finish(c, Ok)
  /\ UNCHANGED <<users, nextId, now, tokens, site, mail>>

----------------------------------------------------------------------------
(* Time passing between two calls *)

Tick(d) ==
  /\ now + d <= MaxTime
  /\ now' = now + d
  /\ UNCHANGED <<users, nextId, otpStore, last, tokens, calls, site, mail>>

----------------------------------------------------------------------------
(* Inputs of the calls *)

\* schema.ts: resetPasswordInputSchema (email: z.string().email() holds of Emails)
resetPasswordInputSchema(input) ==
  /\ input.email \in Emails
  /\ Len(input.otp_code) = 6
  /\ Len(input.new_password) >= 6

UserIds == 1..MaxUsers

WrongCode == <<"0", "0", "0", "0", "0", "0">>
OtpCodes == {generateOTP(r) : r \in RandomValues} \cup {WrongCode}

RegisterInputs ==
  [name : Names, email : Emails, password : Passwords, confirm_password : Passwords,
   role : {Undefined}]
\* schema.ts: loginInputSchema; remember_me is optional, and a call that does
\* not provide it has no such field
LoginInputs == [email : Emails, password : Passwords]
ForgotPasswordInputs == [email : Emails]
ResetPasswordInputs == [email : Emails, otp_code : OtpCodes, new_password : Passwords]
UpdateProfileInputs == [name : {Undefined}, email : Emails, theme : {Undefined}]

Register == \E input \in RegisterInputs : register(input)
Login == \E input \in LoginInputs : login(input)
ForgotPassword == \E input \in ForgotPasswordInputs, r \in RandomValues : forgotPassword(input, r)
ResetPassword == \E input \in ResetPasswordInputs : resetPassword(input)
UpdateUser == \E id \in UserIds, input \in UpdateProfileInputs : updateUser(id, input)
DeleteUser == \E id \in UserIds : deleteUser(id)
ToggleUserStatus == \E id \in UserIds : toggleUserStatus(id)
Clock == \E d \in TickSteps : Tick(d)

\* Spec runs the password-reset flow.  An email loses its account through
\* updateUser (a change of email); DeleteUser, which reaches the same shape of
\* state through fresh ids, is left to the specifications of user management.
\* login writes nothing that the reset flow reads: its decision is the value
\* of loginResult in every state, and the calls themselves run in SpecLogin.
Next ==
  \/ Register
  \/ ForgotPassword
  \/ ResetPassword
  \/ UpdateUser
  \/ ToggleUserStatus
  \/ Clock

Spec == Init /\ [][Next]_vars

----------------------------------------------------------------------------
(* Registration with every field varied *)

AnyNames == {"Ann", "Bob"}
userRoleEnum == {"USER", "ADMIN"}

\* schema.ts: registerInputSchema
RegistrationInputs ==
  [name : AnyNames, email : Emails, password : Passwords, confirm_password : Passwords,
   role : userRoleEnum \cup {Undefined}]

Registration == \E input \in RegistrationInputs : register(input)

NextRegister ==
  \/ Registration
  \/ DeleteUser
  \/ Clock

SpecRegister == Init /\ [][NextRegister]_vars

----------------------------------------------------------------------------
(* Logging in, with and without remember_me, on accounts that are           *)
(* deactivated and reactivated                                               *)

LoginRegisterInputs ==
  [name : Names, email : Emails, password : {PwA}, confirm_password : {PwA},
   role : {Undefined}]
RememberLoginInputs ==
  LoginInputs \cup [email : Emails, password : Passwords, remember_me : BOOLEAN]

LoginRegister == \E input \in LoginRegisterInputs : register(input)
LoginRemember == \E input \in RememberLoginInputs : login(input)

NextLogin ==
  \/ LoginRegister
  \/ LoginRemember
  \/ ToggleUserStatus
  \/ Clock

SpecLogin == Init /\ [][NextLogin]_vars

----------------------------------------------------------------------------
(* Account management: every handler that writes a users row, at one clock   *)
(* reading                                                                   *)

\* Values of randomBytes(32).toString('hex')
Salts == {<<"a", "1">>, <<"b", "2">>}

\* A password 'x:<derived key>' whose auth.ts hash, 'hashed_x:<derived key>',
\* users.ts reads as the salt 'hashed_x' and the derived key of PwA
PwCrafted == <<"x", ":", pbkdf2Sync(PwA, HashedPrefix \o <<"x">>)>>

AccountRegisterInputs ==
  {input \in [name : Names, email : Emails, password : {PwA, PwCrafted},
              confirm_password : {PwA, PwCrafted}, role : {Undefined}] :
     input.password = input.confirm_password}
AccountResetInputs ==
  [email : {"ann@x.com"}, otp_code : {generateOTP(Rnd123456789), WrongCode}, new_password : {PwB}]
\* schema.ts: changePasswordInputSchema
ChangePasswordInputs ==
  [current_password : {PwA, PwB}, new_password : {PwB}, confirm_password : {PwB}]
VerifyTokens ==
  {verifyToken(id, 0) : id \in UserIds}
    \cup {<<"i", "n", "v", "a", "l", "i", "d", "_", "t", "o", "k", "e", "n">>}

AccountRegister == \E input \in AccountRegisterInputs : register(input)
\* The reset flow of this specification runs for one of the emails
AccountForgot == \E input \in [email : {"ann@x.com"}] : forgotPassword(input, Rnd123456789)
AccountReset == \E input \in AccountResetInputs : resetPassword(input)
\* The salt drawn decides neither which rows exist nor which password a row
\* verifies, so the calls of this specification all draw the same one
ChangePassword ==
  \E id \in UserIds, input \in ChangePasswordInputs :
    changePassword(id, input, <<"a", "1">>)
VerifyEmail == \E token \in VerifyTokens : verifyEmail(token)

NextAccounts ==
  \/ AccountRegister
  \/ Login
  \/ AccountForgot
  \/ AccountReset
  \/ VerifyEmail
  \/ UpdateUser
  \/ DeleteUser
  \/ ChangePassword
  \/ ToggleUserStatus

SpecAccounts == Init /\ [][NextAccounts]_vars

----------------------------------------------------------------------------
(* Email verification over time *)

NextVerify ==
  \/ LoginRegister
  \/ VerifyEmail
  \/ UpdateUser
  \/ ToggleUserStatus
  \/ Clock

SpecVerify == Init /\ [][NextVerify]_vars

----------------------------------------------------------------------------
(* Changing the password, every input field varied *)

ChangeAnyInputs ==
  [current_password : Passwords, new_password : Passwords, confirm_password : Passwords]

ChangeAnyPassword ==
  \E id \in UserIds, input \in ChangeAnyInputs, salt \in Salts :
    changePassword(id, input, salt)

NextPassword ==
  \/ AccountRegister
  \/ ChangeAnyPassword
  \/ DeleteUser
  \/ Clock

SpecPassword == Init /\ [][NextPassword]_vars

----------------------------------------------------------------------------
(* Seeding the buildings table *)

BuildingIds == 1..MaxBuildings

\* schema.ts: createBuildingInputSchema, updateBuildingInputSchema
CreateBuildingInputs == [name : {"Lab"}]
UpdateBuildingInputs == [id : BuildingIds] \cup [id : BuildingIds, name : {"Annex"}]

InitializePertaminaBuildings == initializePertaminaBuildings
SeedCreateBuilding ==
  /\ nextBuildingId <= MaxBuildings + Len(PertaminaBuildings)
  /\ \E input \in CreateBuildingInputs : createBuilding(input)
UpdateBuilding == \E input \in UpdateBuildingInputs : updateBuilding(input)
DeleteBuilding == \E id \in BuildingIds : deleteBuilding(id)

NextSeed ==
  \/ InitializePertaminaBuildings
  \/ SeedCreateBuilding
  \/ UpdateBuilding
  \/ DeleteBuilding

SpecSeed == Init /\ [][NextSeed]_vars

----------------------------------------------------------------------------
(* Buildings, rooms and cameras.  An id names no row before the row is      *)
(* inserted and after it is deleted, so every id below is unknown in some    *)
(* states and known in others.                                               *)

RoomIds == 1..MaxRooms
CctvIds == 1..MaxCctv

\* schema.ts: createRoomInputSchema, updateRoomInputSchema,
\* createCctvInputSchema, updateCctvInputSchema
CreateRoomInputs == [building_id : BuildingIds, name : {"Hall"}]
UpdateRoomInputs ==
  [id : {1}, name : {"Vault"}] \cup [id : RoomIds, building_id : BuildingIds]
CreateCctvInputs == [room_id : RoomIds, name : {"Cam"}, status : {"ONLINE"}]
UpdateCctvInputs ==
  [id : {1}, status : {"OFFLINE"}] \cup [id : CctvIds, room_id : RoomIds]

CreateBuilding ==
  /\ nextBuildingId <= MaxBuildings
  /\ \E input \in CreateBuildingInputs : createBuilding(input)
CreateRoom ==
  /\ nextRoomId <= MaxRooms
  /\ \E input \in CreateRoomInputs : createRoom(input)
UpdateRoom == \E input \in UpdateRoomInputs : updateRoom(input)
DeleteRoom == \E id \in RoomIds : deleteRoom(id)
CreateCctv ==
  /\ nextCctvId <= MaxCctv
  /\ \E input \in CreateCctvInputs : createCctv(input)
UpdateCctv == \E input \in UpdateCctvInputs : updateCctv(input)
DeleteCctv == \E id \in CctvIds : deleteCctv(id)

NextSite ==
  \/ CreateBuilding
  \/ DeleteBuilding
  \/ CreateRoom
  \/ UpdateRoom
  \/ DeleteRoom
  \/ CreateCctv
  \/ UpdateCctv
  \/ DeleteCctv

SpecSite == Init /\ [][NextSite]_vars

----------------------------------------------------------------------------
(* Messages between users that are registered and deleted *)

MessageIds == 1..MaxMessages

\* schema.ts: createMessageInputSchema
CreateMessageInputs == [receiver_id : UserIds, content : {"hi"}]

SendMessage ==
  /\ nextMessageId <= MaxMessages
  /\ \E senderId \in UserIds, input \in CreateMessageInputs : sendMessage(senderId, input)
MarkMessageAsRead == \E id \in MessageIds : markMessageAsRead(id)

NextMail ==
  \/ LoginRegister
  \/ DeleteUser
  \/ SendMessage
  \/ MarkMessageAsRead

SpecMail == Init /\ [][NextMail]_vars

----------------------------------------------------------------------------
(* register calls that overlap *)

CallIds == 1..MaxCalls

RaceRegisterInputs ==
  [name : Names, email : Emails, password : {PwA}, confirm_password : {PwA, PwB},
   role : {Undefined}]

RegisterCall == \E c \in CallIds, input \in RaceRegisterInputs : registerCall(c, input)
RegisterSelect == \E c \in CallIds : registerSelect(c)
RegisterInsert == \E c \in CallIds : registerInsert(c)

NextRegisterRace ==
  \/ RegisterCall
  \/ RegisterSelect
  \/ RegisterInsert

SpecRegisterRace == Init /\ [][NextRegisterRace]_vars

----------------------------------------------------------------------------
(* forgotPassword and resetPassword calls that overlap, for one account.     *)
(* usersTable changes here by the insert of register and by the update of    *)
(* resetPassword only, so the row a select returned is the row of that email *)
(* when the call is resumed.                                                 *)

RaceAccountInputs ==
  [name : Names, email : {"ann@x.com"}, password : {PwA}, confirm_password : {PwA},
   role : {Undefined}]
RaceForgotInputs == [email : {"ann@x.com"}]
RaceResetInputs ==
  [email : {"ann@x.com"}, otp_code : {generateOTP(Rnd123456789)}, new_password : Passwords]

RaceRegister == \E input \in RaceAccountInputs : register(input)
ForgotPasswordCall == \E c \in CallIds, input \in RaceForgotInputs : forgotPasswordCall(c, input)
ForgotPasswordSelect == \E c \in CallIds, r \in RandomValues : forgotPasswordSelect(c, r)
ResetPasswordCall == \E c \in CallIds, input \in RaceResetInputs : resetPasswordCall(c, input)
ResetPasswordSelect == \E c \in CallIds : resetPasswordSelect(c)
ResetPasswordWrite == \E c \in CallIds : resetPasswordWrite(c)
ResetPasswordFinish == \E c \in CallIds : resetPasswordFinish(c)

NextResetRace ==
  \/ RaceRegister
  \/ ForgotPasswordCall
  \/ ForgotPasswordSelect
  \/ ResetPasswordCall
  \/ ResetPasswordSelect
  \/ ResetPasswordWrite
  \/ ResetPasswordFinish
  \/ Clock

SpecResetRace == Init /\ [][NextResetRace]_vars

----------------------------------------------------------------------------
(* A pending code whose email changes hands: the account is renamed or       *)
(* deleted and the email is registered again.  forgotPassword runs as a call *)
(* of its own, which keeps the row it found.                                 *)

NextReissue ==
  \/ RaceRegister
  \/ ForgotPasswordCall
  \/ ForgotPasswordSelect
  \/ UpdateUser
  \/ DeleteUser
  \/ AccountReset

SpecReissue == Init /\ [][NextReissue]_vars

----------------------------------------------------------------------------
(* Email verification with tokens of every shape *)

\* 'verify_email_1x_0', 'verify_email_x_0', 'verify_email__0',
\* 'verify_mail_1_0', 'verify_email' and 'verify_email_1'
MalformedTokens ==
  {Verify \o <<"_">> \o Email \o <<"_", "1", "x", "_", "0">>,
   Verify \o <<"_">> \o Email \o <<"_", "x", "_", "0">>,
   Verify \o <<"_">> \o Email \o <<"_", "_", "0">>,
   Verify \o <<"_", "m", "a", "i", "l", "_", "1", "_", "0">>,
   Verify \o <<"_">> \o Email,
   Verify \o <<"_">> \o Email \o <<"_", "1">>}

AnyVerifyTokens == VerifyTokens \cup MalformedTokens

VerifyAnyToken == \E token \in AnyVerifyTokens : verifyEmail(token)

NextTokens ==
  \/ LoginRegister
  \/ VerifyAnyToken
  \/ DeleteUser
  \/ Clock

SpecTokens == Init /\ [][NextTokens]_vars

----------------------------------------------------------------------------
(* Claims *)

pending(email) == email \in DOMAIN otpStore
known(email) == usersByEmail(email) # {}
expired(email) == now > otpStore[email].expires
loginWith(email, password) ==
  loginResult([email |-> email, password |-> password])

\* C1: a successful resetPassword consumes the pending code: from then on every
\* resetPassword for that email, with the same code or any other, fails with
\* 'No password reset request found', and only a forgotPassword call for that
\* email creates a pending entry for it again.
C1_ResetConsumesCode ==
  /\ [](\A input \in ResetPasswordInputs :
          last = Call("resetPassword", input.email, Ok)
            => resetPasswordResult(input) = NoResetRequest)
  /\ [][\A email \in Emails :
          (~pending(email) /\ pending(email)')
            => \E r \in RandomValues : forgotPassword([email |-> email], r)]_vars

C1_Witness ==
  /\ last.op = "resetPassword" /\ last.result = Ok
  /\ known(last.who) /\ ~pending(last.who)
  /\ now > users[firstUser(last.who)].updated_at

\* C2: when resetPassword succeeds with the correct code and a new password
\* p2 on an active account whose old password p1 differs from p2, login with
\* p1 then fails with 'Invalid email or password' and login with p2 succeeds.
C2_ResetChangesPassword ==
  [][\A email \in Emails, p1 \in Passwords, p2 \in Passwords :
       LET input == [email |-> email, otp_code |-> otpStore[email].code,
                     new_password |-> p2] IN
       (/\ p1 # p2
        /\ pending(email) /\ known(email)
        /\ users[firstUser(email)].is_active
        /\ verifyPassword(p1, users[firstUser(email)].password)
        /\ resetPasswordResult(input) = Ok
        /\ resetPassword(input))
         => /\ loginWith(email, p1)' = InvalidCredentials
            /\ loginWith(email, p2)' = Ok]_vars

C2_Witness ==
  /\ last.op = "resetPassword" /\ last.result = Ok
  /\ known(last.who)
  /\ users[firstUser(last.who)].updated_at = now /\ now > 0
  /\ loginWith(last.who, PwB) = Ok
  /\ loginWith(last.who, PwA) = InvalidCredentials

wrongCode(input) ==
  /\ pending(input.email) /\ known(input.email)
  /\ ~expired(input.email)
  /\ input.otp_code # otpStore[input.email].code

\* C3: resetPassword with a wrong code against a pending, unexpired request
\* fails with 'Invalid password reset code' and changes neither the pending
\* request nor any user row, so the correct code still succeeds afterwards.
C3_WrongCodeKeepsRequest ==
  /\ [](\A input \in ResetPasswordInputs :
          wrongCode(input)
            => /\ resetPasswordResult(input) = InvalidResetCode
               /\ resetPasswordResult(
                    [input EXCEPT !.otp_code = otpStore[input.email].code]) = Ok)
  /\ [][\A input \in ResetPasswordInputs :
          (wrongCode(input) /\ resetPassword(input)) => UNCHANGED <<users, otpStore>>]_vars

C3_Witness ==
  \E email \in Emails :
    /\ last = Call("forgotPassword", email, Ok)
    /\ now = otpStore[email].expires
    /\ wrongCode([email |-> email, otp_code |-> WrongCode, new_password |-> PwB])

expiredCode(input) ==
  pending(input.email) /\ known(input.email) /\ expired(input.email)

\* C4: resetPassword for an existing user whose pending code has expired fails
\* with 'Password reset code has expired' whatever code is supplied, deletes
\* the pending entry and changes no user row; the next resetPassword for that
\* email fails with 'No password reset request found'.
C4_ExpiredCodeIsDeleted ==
  /\ [](\A input \in ResetPasswordInputs :
          expiredCode(input) => resetPasswordResult(input) = ResetCodeExpired)
  /\ [][\A input \in ResetPasswordInputs :
          (expiredCode(input) /\ resetPassword(input))
            => /\ UNCHANGED users
               /\ DOMAIN otpStore' = DOMAIN otpStore \ {input.email}
               /\ \A e \in DOMAIN otpStore' : otpStore'[e] = otpStore[e]
               /\ \A next \in ResetPasswordInputs :
                    next.email = input.email
                      => resetPasswordResult(next)' = NoResetRequest]_vars

C4_Witness ==
  /\ last.op = "resetPassword" /\ last.result = ResetCodeExpired
  /\ known(last.who) /\ ~pending(last.who)

correctCode(email) ==
  [email |-> email, otp_code |-> otpStore[email].code, new_password |-> PwB]

C5_WitnessLate ==
  \E email \in Emails :
    /\ pending(email) /\ known(email)
    /\ now = otpStore[email].expires + 15
    /\ resetPasswordResult(correctCode(email)) = ResetCodeExpired

\* C6: one request per email: a successful forgotPassword stores the new code
\* and expiry under the email, in place of any entry it had, and leaves the
\* entries of the other emails as they were; afterwards the new code resets
\* the password and every other code fails with 'Invalid password reset code'.
C6_ForgotPasswordReplaces ==
  [][\A email \in Emails, r \in RandomValues :
       (forgotPasswordResult([email |-> email]) = Ok
          /\ forgotPassword([email |-> email], r))
         => /\ DOMAIN otpStore' = DOMAIN otpStore \cup {email}
            /\ otpStore'[email] = [code |-> generateOTP(r), expires |-> now + 15]
            /\ \A e \in DOMAIN otpStore \ {email} : otpStore'[e] = otpStore[e]
            /\ \A code \in OtpCodes :
                 resetPasswordResult([email |-> email, otp_code |-> code,
                                      new_password |-> PwB])'
                   = IF code = generateOTP(r) THEN Ok ELSE InvalidResetCode]_vars

C6_Witness ==
  \E email \in Emails, other \in Emails :
    /\ last = Call("forgotPassword", email, Ok)
    /\ pending(email) /\ pending(other)
    /\ otpStore[email].expires = now + 15
    /\ otpStore[other].expires < otpStore[email].expires
    /\ otpStore[other].code # otpStore[email].code
    /\ users[firstUser(email)].password = hashPassword(PwB)

\* C7: resetPassword checks user existence, then the pending entry, then the
\* expiry, then the code, and throws the error of the first check that
\* fails; for an unknown email it leaves a pending entry of that email alone.
C7_ResetChecksInOrder ==
  /\ [](\A input \in ResetPasswordInputs :
          resetPasswordResult(input) =
            IF ~known(input.email) THEN UserNotFound
            ELSE IF ~pending(input.email) THEN NoResetRequest
            ELSE IF expired(input.email) THEN ResetCodeExpired
            ELSE IF input.otp_code # otpStore[input.email].code THEN InvalidResetCode
            ELSE Ok)
  /\ [][\A input \in ResetPasswordInputs :
          (~known(input.email) /\ resetPassword(input))
            => UNCHANGED <<users, otpStore>>]_vars

C7_Witness ==
  \E email \in Emails :
    /\ last.op = "updateUser"
    /\ ~known(email) /\ pending(email) /\ expired(email)
    /\ resetPasswordResult([email |-> email, otp_code |-> WrongCode,
                            new_password |-> PwB]) = UserNotFound

C7_WitnessExpiredWrongCode ==
  \E email \in Emails :
    /\ known(email) /\ pending(email) /\ expired(email)
    /\ otpStore[email].code # WrongCode
    /\ resetPasswordResult([email |-> email, otp_code |-> WrongCode,
                            new_password |-> PwB]) = ResetCodeExpired

refused(email) == ~known(email) \/ ~users[firstUser(email)].is_active

\* C8: forgotPassword fails with 'User with this email does not exist' when no
\* account has the email and with 'Account is deactivated' when the account is
\* inactive, and in both cases leaves otpStore as it was.
C8_ForgotPasswordRefusals ==
  /\ [](\A email \in Emails :
          refused(email)
            => forgotPasswordResult([email |-> email])
                 = IF ~known(email) THEN UserNotFound ELSE AccountDeactivated)
  /\ [][\A email \in Emails, r \in RandomValues :
          (refused(email) /\ forgotPassword([email |-> email], r))
            => UNCHANGED otpStore]_vars

C8_Witness ==
  \E email \in Emails, other \in Emails :
    /\ last.op = "toggleUserStatus"
    /\ known(email) /\ ~users[firstUser(email)].is_active /\ pending(email)
    /\ ~known(other) /\ ~pending(other)

SixDigits == {"0", "1", "2", "3", "4", "5", "6", "7", "8", "9"}

\* C9: every code in otpStore is a string of exactly six decimal digits, which
\* the resetPassword input schema accepts as otp_code.
C9_StoredCodeHasSixDigits ==
  \A email \in DOMAIN otpStore :
    /\ Len(otpStore[email].code) = 6
    /\ \A i \in 1..Len(otpStore[email].code) : otpStore[email].code[i] \in SixDigits
    /\ resetPasswordInputSchema(correctCode(email))

\* C10: register with password # confirm_password fails with 'Passwords don't
\* match', also when the email is already taken, and changes neither
\* usersTable nor its id sequence.
C10_MismatchCreatesNothing ==
  /\ [](\A input \in RegisterInputs :
          input.password # input.confirm_password
            => registerResult(input) = PasswordMismatch)
  /\ [][\A input \in RegisterInputs :
          (input.password # input.confirm_password /\ register(input))
            => UNCHANGED <<users, nextId>>]_vars

C10_Witness ==
  \E email \in Emails :
    /\ known(email) /\ nextId <= MaxUsers
    /\ registerResult([name |-> "Ann", email |-> email, password |-> PwA,
                       confirm_password |-> PwB, role |-> Undefined]) = PasswordMismatch

\* C11: registering an email that an existing user already has, with a
\* confirmation that matches the password, fails with 'User with this email
\* already exists' whatever name, password and role are supplied, and the
\* users table (the existing record and the number of records) is unchanged.
C11_DuplicateEmailRefused ==
  /\ [](\A input \in RegistrationInputs :
          (known(input.email) /\ input.password = input.confirm_password)
            => registerResult(input) = DuplicateUser)
  /\ [][\A input \in RegistrationInputs :
          (known(input.email) /\ register(input)) => UNCHANGED users]_vars

\* An account registered as Ann, USER, with PwA, some time ago: every other
\* name, role and password is then a different field value for its email.
C11_Witness ==
  \E id \in DOMAIN users :
    /\ users[id].name = "Ann" /\ users[id].role = "USER"
    /\ users[id].password = hashPassword(PwA)
    /\ now > users[id].updated_at
    /\ Cardinality(DOMAIN users) = 2

emailOnly(email) == [name |-> Undefined, email |-> email, theme |-> Undefined]

\* C12: in every state reached by register, updateUser, deleteUser, login,
\* forgotPassword, resetPassword, changePassword, verifyEmail and
\* toggleUserStatus no two users rows have the same email; updateUser to an
\* email held by another row fails with 'Email is already taken' and changes
\* nothing, and updateUser to the row's own email succeeds.
C12_EmailsAreUnique ==
  /\ [](\A i \in DOMAIN users, j \in DOMAIN users :
          i # j => users[i].email # users[j].email)
  /\ [](\A id \in DOMAIN users, email \in Emails :
          updateUserResult(id, emailOnly(email)) =
            IF email # users[id].email /\ known(email) THEN EmailTaken ELSE Ok)
  /\ [][\A id \in UserIds, input \in UpdateProfileInputs :
          (updateUserResult(id, input) = EmailTaken /\ updateUser(id, input))
            => UNCHANGED users]_vars

\* Two rows hold the two emails, and the last write was an updateUser: it
\* named the row's own email, the other one being taken.
C12_Witness ==
  /\ Cardinality(DOMAIN users) = 2
  /\ last.op = "updateUser" /\ last.result = Ok
  /\ \E id \in DOMAIN users : id # last.who /\ users[id].email # users[last.who].email

active(email) == users[firstUser(email)].is_active

\* C13: login with the email and the password of an active account succeeds
\* and returns a token; login with an unknown email, and login with that
\* account's email and a wrong password, both fail with the one message
\* 'Invalid email or password'.  (Every account of SpecLogin is registered
\* with PwA and keeps it.)
C13_LoginSucceedsOrHidesCause ==
  /\ [](\A input \in RememberLoginInputs :
          IF ~known(input.email) THEN loginResult(input) = InvalidCredentials
          ELSE active(input.email)
                 => loginResult(input) =
                      IF input.password = PwA THEN Ok ELSE InvalidCredentials)
  /\ [][\A input \in RememberLoginInputs :
          (loginResult(input) = Ok /\ login(input)) => loginToken(input) \in tokens']_vars

\* A token was returned just now to an account that is active, while the
\* other email has no account
C13_Witness ==
  /\ \E id \in DOMAIN users : users[id].is_active /\ generateToken(id) \in tokens
  /\ \E email \in Emails : ~known(email)

\* C14: login for an account whose is_active is false fails with 'Account is
\* deactivated' and returns no token, whatever the password; once
\* toggleUserStatus has reactivated the account, login with the correct
\* password succeeds.
C14_InactiveCannotLogIn ==
  /\ [](\A input \in RememberLoginInputs :
          (known(input.email) /\ ~active(input.email))
            => loginResult(input) = AccountDeactivated)
  /\ [][\A input \in RememberLoginInputs :
          (known(input.email) /\ ~active(input.email) /\ login(input))
            => UNCHANGED tokens]_vars
  /\ [][\A id \in UserIds :
          (id \in DOMAIN users /\ ~users[id].is_active /\ toggleUserStatus(id))
            => loginWith(users[id].email, PwA)' = Ok]_vars

\* An account that logged in earlier, was deactivated, and has just been
\* reactivated
C14_Witness ==
  /\ last.op = "toggleUserStatus"
  /\ users[last.who].is_active /\ users[last.who].updated_at = now
  /\ \E t \in tokens : t[2] = last.who /\ t[3] < now
  /\ generateToken(last.who) \notin tokens

\* C15: a login call changes the users table only when it succeeds with
\* remember_me provided, and then only remember_me and updated_at of the row
\* that logged in; a failed login and a successful login without remember_me
\* leave every row as it was.
C15_LoginWritesRememberMeOnly ==
  [][\A input \in RememberLoginInputs :
       login(input) =>
         IF loginResult(input) = Ok /\ "remember_me" \in DOMAIN input
         THEN /\ DOMAIN users' = DOMAIN users
              /\ \A id \in DOMAIN users :
                   \A field \in DOMAIN users[id] :
                     (id # firstUser(input.email) \/ field \notin {"remember_me", "updated_at"})
                       => users'[id][field] = users[id][field]
              /\ users'[firstUser(input.email)].remember_me = input.remember_me
              /\ users'[firstUser(input.email)].updated_at = now
         ELSE UNCHANGED users]_vars

\* A login with remember_me = TRUE was the last write; it happened after the
\* registration, next to a second row
C15_Witness ==
  /\ last.op = "login" /\ last.result = Ok
  /\ users[firstUser(last.who)].remember_me
  /\ users[firstUser(last.who)].updated_at > 0
  /\ Cardinality(DOMAIN users) = 2

\* C16: the token of a login is unique per login event: the token that a
\* successful login returns has not been returned by an earlier login.
C16_TokenIsUniquePerLogin ==
  \A input \in RememberLoginInputs :
    loginResult(input) = Ok => loginToken(input) \notin tokens

HexDigits == Digits \cup {"a", "b", "c", "d", "e", "f"}

Plaintexts == {PwA, PwB, PwCrafted}

\* String.prototype.includes
includes(s, part) ==
  \E i \in 1..(Len(s) - Len(part) + 1) : SubSeq(s, i, i + Len(part) - 1) = part

\* salt:derivedKeyHex: a hex salt, one ':', and the key derived from some
\* plaintext with that salt
saltedHashEncoding(stored) ==
  LET parts == split(stored, ":") IN
  /\ Len(parts) = 2
  /\ parts[1] # <<>> /\ \A i \in 1..Len(parts[1]) : parts[1][i] \in HexDigits
  /\ \E p \in Plaintexts : parts[2] = <<pbkdf2Sync(p, parts[1])>>

\* C17: the password column of every users row (each written by register,
\* resetPassword or changePassword) holds salt:derivedKeyHex and no plaintext
\* can be read in it.
C17_PasswordIsSaltedHash ==
  \A id \in DOMAIN users :
    /\ saltedHashEncoding(users[id].password)
    /\ \A p \in Plaintexts : ~includes(users[id].password, p)

\* C18: with either pair of functions, a hash of p verifies p, and two calls
\* of hash(p) give two different encodings: for users.ts two draws of the
\* salt, for auth.ts any two stored hashes that verify the same p.
C18_HashVerifiesAndIsSalted ==
  /\ \A p \in Plaintexts : verifyPassword(p, hashPassword(p))
  /\ \A p \in Plaintexts, salt \in Salts :
       users_verifyPassword(p, users_hashPassword(p, salt))
  /\ \A p \in Plaintexts, s1 \in Salts, s2 \in Salts :
       s1 # s2 => users_hashPassword(p, s1) # users_hashPassword(p, s2)
  /\ \A i \in DOMAIN users, j \in DOMAIN users, p \in Plaintexts :
       (/\ i # j
        /\ verifyPassword(p, users[i].password)
        /\ verifyPassword(p, users[j].password))
         => users[i].password # users[j].password

\* C19: is_verified is false in every row that register inserts, and no call
\* of register, login, forgotPassword, resetPassword, verifyEmail, updateUser,
\* changePassword, toggleUserStatus or deleteUser turns it from true to false
\* in a row that exists.
C19_VerifiedNeverReverts ==
  /\ [][\A id \in DOMAIN users' \ DOMAIN users : ~users'[id].is_verified]_vars
  /\ [][\A id \in DOMAIN users \cap DOMAIN users' :
          users[id].is_verified => users'[id].is_verified]_vars

\* A verified row whose password changePassword has replaced since
C19_Witness ==
  /\ last.op = "changePassword" /\ last.result = Ok
  /\ users[last.who].is_verified
  /\ saltedHashEncoding(users[last.who].password)
  /\ ~users[last.who].is_active

\* C20: verifyEmail for a row whose is_verified is already true returns
\* 'Email is already verified.' and leaves the users table as it is
\* (updated_at included); a verifyEmail that verifies a row leaves it with
\* is_verified true, so that the same call made again is such a call.
C20_VerifyEmailIsIdempotent ==
  /\ [](\A id \in DOMAIN users :
          users[id].is_verified
            => verifyEmailResult(verifyToken(id, 0)) = EmailAlreadyVerified)
  /\ [][\A token \in VerifyTokens :
          (verifyEmailResult(token) = EmailAlreadyVerified /\ verifyEmail(token))
            => UNCHANGED users]_vars
  /\ [][\A id \in UserIds :
          (/\ verifyEmailResult(verifyToken(id, 0)) = EmailVerified
           /\ verifyEmail(verifyToken(id, 0)))
            => users'[id].is_verified]_vars

\* verifyEmail was the last write, and the clock has moved on since: a second
\* call would stamp a later updated_at if it wrote
C20_Witness ==
  /\ last.op = "verifyEmail" /\ last.result = EmailVerified
  /\ users[last.who].is_verified
  /\ now > users[last.who].updated_at

\* The shape 'verify_email_<digits>', with or without further segments
wellFormedToken(token) ==
  LET parts == split(token, "_") IN
  /\ Len(parts) >= 3
  /\ parts[1] = Verify /\ parts[2] = Email
  /\ parts[3] # <<>> /\ \A i \in 1..Len(parts[3]) : parts[3][i] \in Digits

\* C21: verifyEmail accepts only tokens 'verify_email_<numeric id>_<timestamp>':
\* a token of any other shape, a third segment that is not all digits
\* included, fails with 'Invalid verification token' and changes no users row,
\* and a well-formed token for an id that no row has fails with 'User not
\* found'.
C21_OnlyWellFormedTokensAccepted ==
  /\ [][\A token \in AnyVerifyTokens :
          (~wellFormedToken(token) /\ verifyEmail(token)) => UNCHANGED users]_vars
  /\ [](\A token \in AnyVerifyTokens :
          IF ~wellFormedToken(token)
          THEN verifyEmailResult(token) = InvalidVerificationToken
          ELSE ValueOf(split(token, "_")[3]) \notin DOMAIN users
                 => verifyEmailResult(token) = UserIdNotFound)

\* C22: changePassword fails with "Passwords don't match" when new_password
\* differs from confirm_password, else with 'User not found' when the id has
\* no row, else with 'Current password is incorrect' when current_password
\* does not verify against the stored password, and a failing call leaves the
\* users table unchanged; after a success the new password verifies against
\* the stored value and the old one, when it is another password, does not.
C22_ChangePasswordChecks ==
  /\ [](\A id \in UserIds, input \in ChangeAnyInputs :
          changePasswordResult(id, input) =
            IF input.new_password # input.confirm_password THEN PasswordMismatch
            ELSE IF id \notin DOMAIN users THEN UserIdNotFound
            ELSE IF ~users_verifyPassword(input.current_password, users[id].password)
                 THEN PasswordIncorrect
            ELSE Ok)
  /\ [][\A id \in UserIds, input \in ChangeAnyInputs, salt \in Salts :
          changePassword(id, input, salt) =>
            IF changePasswordResult(id, input) # Ok THEN UNCHANGED users
            ELSE /\ users_verifyPassword(input.new_password, users'[id].password)
                 /\ input.current_password # input.new_password
                      => ~users_verifyPassword(input.current_password, users'[id].password)]_vars

\* changePassword has replaced a password that changePassword had set: the
\* row verifies PwA again, under the other salt, at a later time
C22_Witness ==
  /\ last.op = "changePassword" /\ last.result = Ok
  /\ users_verifyPassword(PwA, users[last.who].password)
  /\ split(users[last.who].password, ":")[1] = <<"b", "2">>
  /\ users[last.who].updated_at > 0

seedNames == {PertaminaBuildings[i] : i \in DOMAIN PertaminaBuildings}

\* C23: a call of initializePertaminaBuildings on an empty buildings table
\* inserts the 18 seed buildings, one row each, and returns count 18; a call
\* on a table that holds any building inserts nothing and returns count 0.
\* A call that follows one without another handler in between is therefore
\* of the second kind, and the table keeps exactly the 18 seed buildings.
C23_SeedingDoesNotDuplicate ==
  /\ [](initializePertaminaBuildingsResult = IF DOMAIN buildings = {} THEN 18 ELSE 0)
  /\ [][initializePertaminaBuildings =>
          IF DOMAIN buildings # {} THEN UNCHANGED buildings
          ELSE /\ Cardinality(DOMAIN buildings') = 18
               /\ {buildings'[id].name : id \in DOMAIN buildings'} = seedNames
               /\ Cardinality(seedNames) = 18
               /\ initializePertaminaBuildingsResult' = 0]_vars

\* The seeds were inserted into a table that a createBuilding and a
\* deleteBuilding had left empty, and one seed has been deleted since
C23_Witness ==
  /\ nextBuildingId = 2 + Len(PertaminaBuildings)
  /\ Cardinality(DOMAIN buildings) = 17
  /\ \A id \in DOMAIN buildings : buildings[id].name \in seedNames

----------------------------------------------------------------------------
referentialIntegrity ==
  /\ \A c \in DOMAIN cctv : cctv[c].room_id \in DOMAIN rooms
  /\ \A r \in DOMAIN rooms : rooms[r].building_id \in DOMAIN buildings

\* C24: in every reachable state every camera's room_id names an existing
\* room and every room's building_id names an existing building; createRoom
\* and updateRoom with an unknown building, and createCctv and updateCctv with
\* an unknown room, fail and change nothing; deleteRoom of a room removes the
\* room and exactly the cameras of that room.
C24_ReferentialIntegrity ==
  /\ []referentialIntegrity
  /\ [][/\ \A input \in CreateRoomInputs :
             input.building_id \notin DOMAIN buildings /\ createRoom(input)
               => createRoomResult(input) = BuildingNotFound /\ UNCHANGED vars
        /\ \A input \in UpdateRoomInputs :
             ("building_id" \in DOMAIN input /\ input.building_id \notin DOMAIN buildings
                                             /\ updateRoom(input))
               => updateRoomResult(input) # Ok /\ UNCHANGED vars
        /\ \A input \in CreateCctvInputs :
             input.room_id \notin DOMAIN rooms /\ createCctv(input)
               => createCctvResult(input) = RoomNotFound /\ UNCHANGED vars
        /\ \A input \in UpdateCctvInputs :
             ("room_id" \in DOMAIN input /\ input.room_id \notin DOMAIN rooms
                                         /\ updateCctv(input))
               => updateCctvResult(input) # Ok /\ UNCHANGED vars
        /\ \A id \in DOMAIN rooms :
             deleteRoom(id)
               => /\ id \notin DOMAIN rooms'
                  /\ DOMAIN cctv' = {c \in DOMAIN cctv : cctv[c].room_id # id}]_vars

\* A room with a camera has been deleted while another room keeps its camera
C24_Witness ==
  /\ nextRoomId = 3
  /\ nextCctvId = 3
  /\ Cardinality(DOMAIN rooms) = 1
  /\ Cardinality(DOMAIN cctv) = 1
  /\ referentialIntegrity

----------------------------------------------------------------------------
added(table, table2) == DOMAIN table2 \ DOMAIN table
keeps(table, table2) ==
  /\ DOMAIN table \subseteq DOMAIN table2
  /\ \A id \in DOMAIN table : table2[id] = table[id]

\* C25: sendMessage with an existing sender and an existing receiver adds
\* exactly one message, unread, from the sender to the receiver, and exactly
\* one notification, unread, of type MESSAGE, for the receiver, and leaves the
\* other rows as they are; with a missing sender it fails with 'Sender not
\* found', with an existing sender and a missing receiver with 'Receiver not
\* found', and a failing call adds neither a message nor a notification.
C25_SendMessageStoresOneOfEach ==
  /\ [](\A senderId \in UserIds, input \in CreateMessageInputs :
          sendMessageResult(senderId, input) =
            IF senderId \notin DOMAIN users THEN SenderNotFound
            ELSE IF input.receiver_id \notin DOMAIN users THEN ReceiverNotFound
            ELSE Ok)
  /\ [][\A senderId \in UserIds, input \in CreateMessageInputs :
          sendMessage(senderId, input) =>
            IF senderId \in DOMAIN users /\ input.receiver_id \in DOMAIN users
            THEN /\ keeps(messages, messages') /\ keeps(notifications, notifications')
                 /\ Cardinality(added(messages, messages')) = 1
                 /\ Cardinality(added(notifications, notifications')) = 1
                 /\ \A m \in added(messages, messages') :
                      /\ messages'[m].sender_id = senderId
                      /\ messages'[m].receiver_id = input.receiver_id
                      /\ ~messages'[m].is_read
                 /\ \A n \in added(notifications, notifications') :
                      /\ notifications'[n].user_id = input.receiver_id
                      /\ notifications'[n].type = "MESSAGE"
                      /\ ~notifications'[n].is_read
            ELSE UNCHANGED <<messages, notifications>>]_vars

\* Two messages have been sent, one of them to another user, and both
\* notifications are there
C25_Witness ==
  /\ Cardinality(DOMAIN messages) = 2
  /\ Cardinality(DOMAIN notifications) = 2
  /\ \E m \in DOMAIN messages : messages[m].sender_id # messages[m].receiver_id
  /\ \A n \in DOMAIN notifications : notifications[n].type = "MESSAGE"

----------------------------------------------------------------------------
\* The calls of handler op for an email that have returned with success
succeeded(op, email) ==
  {c \in DOMAIN calls : /\ calls[c].op = op /\ calls[c].pc = "done"
                        /\ calls[c].result = Ok /\ calls[c].input.email = email}

issuedTo(email) == {calls[c].user : c \in succeeded("forgotPassword", email)}

\* C26: a pending reset code changes the password of no account but the one
\* forgotPassword issued it for: the row that a successful resetPassword
\* writes is a row that a successful forgotPassword for that email found,
\* also after that row was renamed or deleted and another row took the email.
C26_CodeServesItsAccountOnly ==
  [][\A input \in AccountResetInputs :
       resetPasswordResult(input) = Ok /\ resetPassword(input)
         => firstUser(input.email) \in issuedTo(input.email)]_vars

----------------------------------------------------------------------------
\* C27: resetPassword changes the password of no account whose is_active is
\* false: a resetPassword that succeeds does so on an account that is active,
\* also when the account was deactivated after its code was issued.
C27_InactiveIsNotReset ==
  [][\A input \in ResetPasswordInputs :
       resetPasswordResult(input) = Ok /\ resetPassword(input)
         => users[firstUser(input.email)].is_active]_vars

----------------------------------------------------------------------------
acceptedByBoth(password, stored) ==
  /\ verifyPassword(password, stored)
  /\ users_verifyPassword(password, stored)

\* C28: the plaintext that register, resetPassword or changePassword set last
\* for a user is the one login accepts and the one changePassword accepts as
\* current_password: the password each of the three stores passes both the
\* verifyPassword of auth.ts, which login calls, and the verifyPassword of
\* users.ts, which changePassword calls.
C28_LastSetPasswordIsAccepted ==
  [][/\ \A input \in AccountRegisterInputs :
          registerResult(input) = Ok /\ register(input)
            => acceptedByBoth(input.password, users'[nextId].password)
     /\ \A input \in AccountResetInputs :
          resetPasswordResult(input) = Ok /\ resetPassword(input)
            => acceptedByBoth(input.new_password, users'[firstUser(input.email)].password)
     /\ \A id \in UserIds, input \in ChangePasswordInputs :
          changePasswordResult(id, input) = Ok /\ changePassword(id, input, <<"a", "1">>)
            => acceptedByBoth(input.new_password, users'[id].password)]_vars

----------------------------------------------------------------------------
returned(c) == c \in DOMAIN calls /\ calls[c].op = "register" /\ calls[c].pc = "done"

\* C29: of two register calls for one email that both passed the password
\* check and have both returned, exactly one created the user and the other
\* failed with 'User with this email already exists', also when both ran
\* their existence check before either inserted; and no two users hold the
\* same email.
C29_RacingRegisterIsDuplicateUser ==
  /\ \A c, d \in DOMAIN calls :
       (/\ c # d /\ returned(c) /\ returned(d)
        /\ calls[c].input.email = calls[d].input.email
        /\ calls[c].result = Ok)
         => calls[d].result \in {DuplicateUser, PasswordMismatch}
  /\ \A i, j \in DOMAIN users : users[i].email = users[j].email => i = j

----------------------------------------------------------------------------
\* C30: a pending code is used once, also by resetPassword calls that
\* overlap: no more resetPassword calls have succeeded for an email than
\* forgotPassword calls have stored a code for it, and the otpStore.delete
\* that ends a resetPassword removes the entry that call checked, never one
\* that a forgotPassword stored since.
C30_CodeIsOneTimeUnderInterleaving ==
  /\ [](\A email \in Emails :
          Cardinality(succeeded("resetPassword", email))
            <= Cardinality(succeeded("forgotPassword", email)))
  /\ [][\A c \in CallIds :
          resetPasswordFinish(c) /\ calls[c].input.email \in DOMAIN otpStore
            => otpStore[calls[c].input.email] = calls[c].storedOTP]_vars

====
